---------------------------- MODULE Spec2Model ----------------------------
(***************************************************************************)
(* The 3D patch-sampling dataset of experiments/datasets/MRI/mri.py:       *)
(* class MRISegmentation (construction, initialize_patch_indices,          *)
(* __getitem__, get_original, __len__) and its static planner              *)
(* calc_patch_indices.                                                     *)
(*                                                                         *)
(* Shapes and index vectors are 3-tuples (one entry per axis) and a patch  *)
(* is a function over 0-based coordinate triples.  A volume array          *)
(* (self.data[v], self.labels[v]) is kept as what it holds: the block of   *)
(* file voxels inside it and the constant around the block.  Numbers       *)
(* stored in volumes are kept in half-units (the integer h stands for the  *)
(* number h/2), so that the dtype conversions of the code                  *)
(* (astype(np.int64), astype(np.float32), dtype=np.int16) are modelled by  *)
(* what they do.                                                           *)
(***************************************************************************)
EXTENDS Integers, Sequences, FiniteSets, TLC

(***************************************************************************)
(* Bounds of the model.                                                    *)
(***************************************************************************)
MaxImage == 4
MaxPatch == 5
DsMaxShape == 3
DsMaxPatch == 2

(***************************************************************************)
(* Program constants.                                                      *)
(***************************************************************************)
NDim == 3
MinOverflowNum == 1
MinOverflowDen == 4

Axes == 1..NDim

\* None, as the value of a padding_boundary entry that is not set yet
None == <<>>

VARIABLES
  pc,                       \* where the running call stands
  h5,                       \* the HDF5 file and the filter: the volumes to load
  patch_shape,              \* self.patch_shape
  patch_overlap,            \* self.patch_overlap
  randomize_patch_offsets,  \* self.randomize_patch_offsets
  pad_constant,             \* self.pad_constant (pad_mode is 'constant')
  data,                     \* self.data
  labels,                   \* self.labels
  unpadded_data_shape,      \* self.unpadded_data_shape
  padding_boundary,         \* self.padding_boundary
  patch_indices,            \* self.patch_indices
  i,                        \* the loop variable of initialize_patch_indices
  constructing,             \* initialize_patch_indices was called by __init__
  ret,                      \* what the last call returned
  plan_args,                \* the arguments of a direct calc_patch_indices call
  plan_ret                  \* what that call returned

cfgVars == <<h5, patch_shape, patch_overlap, randomize_patch_offsets, pad_constant>>

volVars == <<data, labels, unpadded_data_shape>>

planVars == <<plan_args, plan_ret>>

vars == <<pc, cfgVars, volVars, padding_boundary, patch_indices, i, constructing,
          ret, planVars>>

(***************************************************************************)
(* numpy helpers                                                           *)
(***************************************************************************)
Max(a, b) == IF a >= b THEN a ELSE b

Min(a, b) == IF a <= b THEN a ELSE b

\* np.ceil(a / b) for integers a and b > 0
CeilDiv(a, b) == -((-a) \div b)

\* np.repeat(x, 3)
Repeat(x) == [a \in Axes |-> x]

\* ndarray.clip(min=lo, max=hi) on one element
Clip(x, lo, hi) == Min(Max(x, lo), hi)

(***************************************************************************)
(* calc_patch_indices                                                      *)
(***************************************************************************)
\* eff_patch_shape = (patch_shape - overlap)
EffPatchShape(p_shape, overlap) ==
  [a \in Axes |-> p_shape[a] - overlap[a]]

\* n_patches = np.ceil((image_shape - patch_shape) / eff_patch_shape + 1)
NPatches(image_shape, p_shape, eff) ==
  [a \in Axes |-> CeilDiv(image_shape[a] - p_shape[a] + eff[a], eff[a])]

\* overflow = eff_patch_shape * n_patches - image_shape + overlap
Overflow(image_shape, eff, n_patches, overlap) ==
  [a \in Axes |-> eff[a] * n_patches[a] - image_shape[a] + overlap[a]]

\* BelowMinimumOverflow with a minimum_overflow_fraction of 0
BelowZeroOverflow(overflow, p_shape) ==
  [a \in Axes |-> overflow[a] * MinOverflowDen < 0 * p_shape[a]]

\* extra_patch = (overflow / patch_shape) < minimum_overflow_fraction
BelowMinimumOverflow(overflow, p_shape) ==
  [a \in Axes |-> overflow[a] * MinOverflowDen < MinOverflowNum * p_shape[a]]

\* BelowOverlap with <= for <
NotAboveOverlap(overflow, overlap) ==
  [a \in Axes |-> overflow[a] <= overlap[a]]

\* extra_patch = (overflow < overlap)
BelowOverlap(overflow, overlap) ==
  [a \in Axes |-> overflow[a] < overlap[a]]

\* overflow += extra_patch*eff_patch_shape ; n_patches += extra_patch
AddExtraPatch(g, extra, eff) ==
  [overflow  |-> [a \in Axes |-> g.overflow[a] + (IF extra[a] THEN eff[a] ELSE 0)],
   n_patches |-> [a \in Axes |-> g.n_patches[a] + (IF extra[a] THEN 1 ELSE 0)]]

\* the while loop of the randomize branch
RECURSIVE MinimumOverflowLoop(_, _, _)
MinimumOverflowLoop(g, p_shape, eff) ==
  LET extra_patch == BelowMinimumOverflow(g.overflow, p_shape)
  IN  IF \E a \in Axes : extra_patch[a]
      THEN MinimumOverflowLoop(AddExtraPatch(g, extra_patch, eff), p_shape, eff)
      ELSE g

\* the while loop of the non-randomize branch
RECURSIVE OverlapLoop(_, _, _)
OverlapLoop(g, overlap, eff) ==
  LET extra_patch == BelowOverlap(g.overflow, overlap)
  IN  IF \E a \in Axes : extra_patch[a]
      THEN OverlapLoop(AddExtraPatch(g, extra_patch, eff), overlap, eff)
      ELSE g

\* EvenStartIndex without the sign
EvenStartIndexUnsigned(overflow) == [a \in Axes |-> CeilDiv(overflow[a], 2)]

\* start_index = -np.ceil(overflow/2).astype(int)
EvenStartIndex(overflow) == [a \in Axes |-> -CeilDiv(overflow[a], 2)]

\* start_index = -np.array([np.random.choice(offset + 1) for offset in overflow])
\* draw[a] is the value np.random.choice returned for axis a
RandomStartIndex(draw) == [a \in Axes |-> -draw[a]]

\* the values np.random.choice(offset + 1) can return, per axis
Draws(overflow) ==
  {d \in [Axes -> 0..Max(Max(overflow[1], overflow[2]), overflow[3])] :
     \A a \in Axes : d[a] <= overflow[a]}

\* StopIndex at the far edge of the image, whatever the start
StopAtImageEdge(image_shape, start_index, step_size, n_patches) ==
  [a \in Axes |-> image_shape[a]]

\* stop_index = start_index + step_size*n_patches
StopIndex(image_shape, start_index, step_size, n_patches) ==
  [a \in Axes |-> start_index[a] + step_size[a] * n_patches[a]]

\* the length np.mgrid gives an axis: int(math.ceil((stop - start)/(step*1.0)))
GridSize(start, stop, step) ==
  [a \in Axes |-> CeilDiv(stop[a] - start[a], step[a])]

\* np.mgrid[s0:e0:d0, s1:e1:d1, s2:e2:d2].reshape(3, -1).T : the rows, last
\* axis varying fastest (no axis has a negative length)
Mgrid(start, stop, step) ==
  LET c == GridSize(start, stop, step)
  IN  [j \in 1..(c[1] * c[2] * c[3]) |->
         << start[1] + ((j - 1) \div (c[2] * c[3])) * step[1],
            start[2] + (((j - 1) \div c[3]) % c[2]) * step[2],
            start[3] + ((j - 1) % c[3]) * step[3] >>]

\* The geometry the planner fixes before any random draw: n_patches and
\* overflow after the branch's loop, and the overflow before it.
PlanGeometry(image_shape, p_shape, overlap, randomize_offset) ==
  LET eff == EffPatchShape(p_shape, overlap)
      n0  == NPatches(image_shape, p_shape, eff)
      g0  == [overflow  |-> Overflow(image_shape, eff, n0, overlap),
              n_patches |-> n0]
      g   == IF randomize_offset
             THEN MinimumOverflowLoop(g0, p_shape, eff)
             ELSE OverlapLoop(g0, overlap, eff)
  IN  [eff |-> eff, overflow0 |-> g0.overflow,
       overflow |-> g.overflow, n_patches |-> g.n_patches]

\* calc_patch_indices(image_shape, patch_shape, overlap, randomize_offset);
\* returns (placements, overflow); n_patches, start_index and the step are
\* the locals of the call the properties speak about.  np.mgrid raises
\* ValueError (negative dimensions) when an axis has a negative length.
CalcPatchIndices(image_shape, p_shape, overlap, randomize_offset, draw) ==
  LET g           == PlanGeometry(image_shape, p_shape, overlap, randomize_offset)
      start_index == IF randomize_offset
                     THEN RandomStartIndex(draw)
                     ELSE EvenStartIndex(g.overflow0)
      stop_index  == StopIndex(image_shape, start_index, g.eff, g.n_patches)
      size        == GridSize(start_index, stop_index, g.eff)
      raises      == \E a \in Axes : size[a] < 0
  IN  [status      |-> IF raises THEN "ValueError" ELSE "ok",
       placements  |-> IF raises THEN <<>>
                       ELSE Mgrid(start_index, stop_index, g.eff),
       overflow    |-> g.overflow,
       n_patches   |-> g.n_patches,
       start_index |-> start_index,
       step_size   |-> g.eff]


(***************************************************************************)
(* Numbers and the dtype conversions of numpy                              *)
(***************************************************************************)
\* the integer n as a stored number (half-units)
Num(n) == 2 * n

\* astype(np.int64) of a float (half-units): truncation towards zero
AsInt64(h) == IF h >= 0 THEN (h \div 2) * 2 ELSE -(((-h) \div 2) * 2)

\* the spacing of the float32 numbers around h (half-units), |h| <= 2^26
Float32Spacing(h) ==
  LET m == IF h >= 0 THEN h ELSE -h
  IN  IF m <= 2^24 THEN 1 ELSE IF m <= 2^25 THEN 2 ELSE 4

\* astype(np.float32) of a float64 (half-units): round to nearest, ties to even
AsFloat32(h) ==
  LET sp == Float32Spacing(h)
      q  == h \div sp
      r  == h - q * sp
  IN  IF 2 * r < sp THEN q * sp
      ELSE IF 2 * r > sp THEN (q + 1) * sp
      ELSE IF q % 2 = 0 THEN q * sp ELSE (q + 1) * sp

\* x is a value of int16
FitsInt16(x) == -(2^15) <= x /\ x < 2^15

\* x narrowed to 16 bits (two's complement)
AsInt16(x) == ((x + 2^15) % 2^16) - 2^15

\* np.array(x, dtype=np.int16) of a Python int that is no value of int16:
\* numpy before 2.0 wraps it to 16 bits, numpy 2 raises OverflowError
Int16Conversions == {"wrap", "OverflowError"}

(***************************************************************************)
(* The HDF5 file: hf[name][:] for each name of the filter, an array of     *)
(* shape (X, Y, Z, 2); channel 0 is the signal, channel 1 the label.       *)
(* A file is [shapes, base]: volume v has shape shapes[v], its signal at   *)
(* x is base + Lin(x) (half-units, so odd numbers are fractional values)   *)
(* and its label at x the integer Lin(x) + 1.                              *)
(***************************************************************************)
\* the coordinates of an array of the given shape
Coords(shape) ==
  {<<x, y, z>> : x \in 0..(shape[1] - 1), y \in 0..(shape[2] - 1),
                 z \in 0..(shape[3] - 1)}

\* the position of a coordinate in C order
Lin(shape, c) == (c[1] * shape[2] + c[2]) * shape[3] + c[3]

\* hf[name][:][x, y, z, chan]
H5Voxel(file, v, chan, x) ==
  IF chan = 0 THEN file.base + Lin(file.shapes[v], x)
              ELSE Num(Lin(file.shapes[v], x) + 1)

\* ndarray.squeeze() on the shape: axes of length 1 are dropped
Squeeze(shape) == SelectSeq(shape, LAMBDA n : n # 1)

(***************************************************************************)
(* Volume arrays.  [shape, low, block, vol, chan, fill, int64] is the      *)
(* array of the given shape that holds channel chan of volume vol of the   *)
(* file in the block of shape `block` that starts at `low`, and `fill`     *)
(* everywhere else, every entry converted to int64 when int64 is set.      *)
(***************************************************************************)
\* data[:,:,:,chan].squeeze() of hf[name][:]
H5Volume(file, v, chan) ==
  [shape |-> Squeeze(file.shapes[v]), low |-> Repeat(0),
   block |-> Squeeze(file.shapes[v]), vol |-> v, chan |-> chan,
   fill |-> 0, int64 |-> FALSE]

\* arr[x[0], x[1], x[2]] of a volume array
At(arr, x) ==
  LET inblock == \A a \in Axes :
                   arr.low[a] <= x[a] /\ x[a] < arr.low[a] + arr.block[a]
      stored  == IF inblock
                 THEN H5Voxel(h5, arr.vol, arr.chan,
                              <<x[1] - arr.low[1], x[2] - arr.low[2], x[3] - arr.low[3]>>)
                 ELSE arr.fill
  IN  IF arr.int64 THEN AsInt64(stored) ELSE stored

\* np.pad(arr, pad_width, mode='constant', constant_values=c) of a volume
\* array as loaded (its block is the whole array)
Pad(arr, pad_width, c) ==
  [arr EXCEPT
     !.shape = [a \in Axes |-> arr.shape[a] + pad_width[a][1] + pad_width[a][2]],
     !.low   = [a \in Axes |-> arr.low[a] + pad_width[a][1]],
     !.fill  = c]

\* arr.astype(np.int64) of a volume array
AsInt64Array(arr) == [arr EXCEPT !.int64 = TRUE]

\* where a slice bound k lands on an axis of length n (Python slicing: a
\* negative bound counts from the end, bounds are clamped to the axis)
SliceBound(k, n) == IF k < 0 THEN Max(k + n, 0) ELSE Min(k, n)

\* arr[lo[0]:hi[0], lo[1]:hi[1], lo[2]:hi[2]] of a volume array: the patch,
\* a function over the coordinates of its shape
Slice(arr, lo, hi) ==
  LET first == [a \in Axes |-> SliceBound(lo[a], arr.shape[a])]
      shape == [a \in Axes |->
                  Max(SliceBound(hi[a], arr.shape[a]) - first[a], 0)]
  IN  [shape |-> shape,
       at    |-> [x \in Coords(shape) |->
                    At(arr, <<first[1] + x[1], first[2] + x[2], first[3] + x[3]>>)]]

\* patch.astype(np.float32)
AsFloat32Array(arr) ==
  [shape |-> arr.shape, at |-> [x \in DOMAIN arr.at |-> AsFloat32(arr.at[x])]]

(***************************************************************************)
(* MRISegmentation                                                         *)
(***************************************************************************)
NoRet == [op |-> "none"]

NVolumes == Len(h5.shapes)

\* isinstance(x, numbers.Integral): an Integral argument n is held as <<n>>,
\* an array argument as its 3-tuple
Integral(x) == Len(x) = 1

\* pad_width = np.stack([overflow, overflow], axis=1)
PadWidth(overflow) == [a \in Axes |-> <<overflow[a], overflow[a]>>]

\* SetPaddingBoundary adding to a record that is already set
AddPaddingBoundary(old, pad_width) ==
  IF old = None THEN pad_width
  ELSE [a \in Axes |-> <<old[a][1] + pad_width[a][1], old[a][2] + pad_width[a][2]>>]

\* if self.padding_boundary[i] is None: self.padding_boundary[i] = pad_width
SetPaddingBoundary(old, pad_width) == IF old = None THEN pad_width ELSE old

\* np.append(np.full((n, 1), i), patch_indices, axis=1).tolist()
TagPatches(v, placements) ==
  [j \in 1..Len(placements) |->
     <<v, placements[j][1], placements[j][2], placements[j][3]>>]

\* self.padding_boundary[dataset_index][:,0]
PadLow(pad_width) == [a \in Axes |-> pad_width[a][1]]

\* patch_valid = np.stack(patch_index).clip(min=0, max=unpadded_shape) - patch_index[0]
PatchValid(start, end, unpadded_shape) ==
  << [a \in Axes |-> Clip(start[a], 0, unpadded_shape[a]) - start[a]],
     [a \in Axes |-> Clip(end[a], 0, unpadded_shape[a]) - start[a]] >>

\* OriginalStart at the origin of the padded volume
OriginalStartZero(pad_width) == Repeat(0)

\* the start of get_original's slice: patch_index_start = padding_boundary[v][:,0]
OriginalStart(pad_width) == PadLow(pad_width)

\* __getitem__(index) on the current state; int16 is what the conversion to
\* int16 does with a coordinate that is no value of int16
getitem(index, int16) ==
  IF index >= Len(patch_indices)
  THEN [op |-> "getitem", index |-> index, status |-> "IndexError"]
  ELSE IF /\ int16 = "OverflowError"
          /\ \E a \in Axes : ~FitsInt16(patch_indices[index + 1][a + 1])
  THEN [op |-> "getitem", index |-> index, status |-> "OverflowError"]
  ELSE
    LET entry         == patch_indices[index + 1]
        dataset_index == entry[1]
        v             == dataset_index + 1
        patch_index_start == [a \in Axes |-> AsInt16(entry[a + 1])]
        patch_index_end   == [a \in Axes |-> patch_index_start[a] + patch_shape[a]]
        patch_valid   == PatchValid(patch_index_start, patch_index_end,
                                    unpadded_data_shape[v])
        low           == PadLow(padding_boundary[v])
        padded_start  == [a \in Axes |-> patch_index_start[a] + low[a]]
        padded_end    == [a \in Axes |-> patch_index_end[a] + low[a]]
        image_patch   == AsFloat32Array(Slice(data[v], padded_start, padded_end))
        labels_patch  == Slice(labels[v], padded_start, padded_end)
    IN  [op |-> "getitem", index |-> index,
         status |-> IF image_patch.shape = patch_shape /\ labels_patch.shape = patch_shape
                    THEN "ok" ELSE "AssertionError",
         image_patch   |-> image_patch,
         labels_patch  |-> labels_patch,
         dataset_index |-> dataset_index,
         patch_index   |-> <<patch_index_start, patch_index_end>>,
         patch_valid   |-> patch_valid]

\* get_original(dataset_index) on the current state
get_original(dataset_index) ==
  LET v     == dataset_index + 1
      size  == unpadded_data_shape[v]
      patch_index_start == OriginalStart(padding_boundary[v])
      patch_index_end   == [a \in Axes |-> patch_index_start[a] + size[a]]
  IN  [op |-> "get_original", dataset_index |-> dataset_index,
       signal |-> Slice(data[v], patch_index_start, patch_index_end),
       label  |-> Slice(labels[v], patch_index_start, patch_index_end)]

(***************************************************************************)
(* The planner called on its own: calc_patch_indices is a static method.   *)
(***************************************************************************)
PlannerInputs ==
  [image_shape      : [Axes -> 1..MaxImage],
   patch_shape      : {Repeat(p) : p \in 1..MaxPatch},
   overlap          : {Repeat(o) : o \in 0..(MaxPatch - 1)},
   randomize_offset : BOOLEAN]

InitPlanner ==
  /\ pc = "call"
  /\ plan_args \in {x \in PlannerInputs : x.overlap[1] < x.patch_shape[1]}
  /\ plan_ret = NoRet
  /\ h5 = None /\ patch_shape = None /\ patch_overlap = None
  /\ randomize_patch_offsets = FALSE /\ pad_constant = 0
  /\ data = None /\ labels = None /\ unpadded_data_shape = None
  /\ padding_boundary = None /\ patch_indices = None
  /\ i = 0 /\ constructing = FALSE /\ ret = NoRet

CallRandom ==
  /\ pc = "call"
  /\ plan_args.randomize_offset
  /\ \E draw \in Draws(PlanGeometry(plan_args.image_shape, plan_args.patch_shape,
                                    plan_args.overlap, TRUE).overflow) :
       plan_ret' = CalcPatchIndices(plan_args.image_shape, plan_args.patch_shape,
                                    plan_args.overlap, TRUE, draw)
  /\ pc' = "called"
  /\ UNCHANGED <<plan_args, cfgVars, volVars, padding_boundary, patch_indices, i,
                 constructing, ret>>

CallEven ==
  /\ pc = "call"
  /\ ~plan_args.randomize_offset
  /\ plan_ret' = CalcPatchIndices(plan_args.image_shape, plan_args.patch_shape,
                                  plan_args.overlap, FALSE, Repeat(0))
  /\ pc' = "called"
  /\ UNCHANGED <<plan_args, cfgVars, volVars, padding_boundary, patch_indices, i,
                 constructing, ret>>

NextPlanner == CallRandom \/ CallEven

SpecPlanner == InitPlanner /\ [][NextPlanner]_vars

(***************************************************************************)
(* The dataset: construction, then any sequence of calls.  A call that     *)
(* returns a value leaves it in ret until the caller takes it (Return).    *)
(* initialize_patch_indices runs its loop one volume per step; no other    *)
(* call is enabled while it runs.                                          *)
(***************************************************************************)
\* signal values around 2^23, where float32 stops holding every half
SignalBases == {2^24 - 3}

PadConstants == {0}

\* the files: one volume of any shape, or a small and a large cubic volume
H5Files ==
  [shapes : {<<s>> : s \in [Axes -> 1..DsMaxShape]}
            \cup {<<Repeat(2), Repeat(DsMaxShape)>>},
   base   : SignalBases]

Init ==
  /\ pc = "new"
  /\ h5 \in H5Files
  /\ patch_shape \in {<<p>> : p \in 1..DsMaxPatch}
  /\ patch_overlap \in {<<o>> : o \in 0..(DsMaxPatch - 1)}
  /\ patch_overlap[1] < patch_shape[1]
  /\ randomize_patch_offsets \in BOOLEAN
  /\ pad_constant \in PadConstants
  /\ data = <<>> /\ labels = <<>> /\ unpadded_data_shape = <<>>
  /\ padding_boundary = <<>> /\ patch_indices = <<>>
  /\ i = 0 /\ constructing = FALSE /\ ret = NoRet
  /\ plan_args = None /\ plan_ret = NoRet

\* where initialize_patch_indices stands after k volumes
AfterVolume(k, in_init) ==
  IF k < NVolumes THEN "init_indices" ELSE IF in_init THEN "padding" ELSE "idle"

\* __init__ up to the first call of initialize_patch_indices
Load ==
  /\ pc = "new"
  /\ \A v \in 1..NVolumes : Len(Squeeze(h5.shapes[v])) = NDim
  /\ patch_shape' = IF Integral(patch_shape) THEN Repeat(patch_shape[1])
                                             ELSE patch_shape
  /\ patch_overlap' = IF Integral(patch_overlap) THEN Repeat(patch_overlap[1])
                                                 ELSE patch_overlap
  /\ data' = [v \in 1..NVolumes |-> H5Volume(h5, v, 0)]
  /\ labels' = [v \in 1..NVolumes |-> H5Volume(h5, v, 1)]
  /\ unpadded_data_shape' = [v \in 1..NVolumes |-> Squeeze(h5.shapes[v])]
  /\ padding_boundary' = [v \in 1..NVolumes |-> None]
  /\ patch_indices' = <<>>
  /\ i' = 0
  /\ constructing' = TRUE
  /\ pc' = AfterVolume(0, TRUE)
  /\ UNCHANGED <<h5, randomize_patch_offsets, pad_constant, ret, planVars>>

\* __init__ on a file with a volume that has an axis of length 1: squeeze()
\* drops the axis, and the planning or the padding of the volume raises
LoadFails ==
  /\ pc = "new"
  /\ \E v \in 1..NVolumes : Len(Squeeze(h5.shapes[v])) # NDim
  /\ pc' = "failed"
  /\ UNCHANGED <<cfgVars, volVars, padding_boundary, patch_indices, i,
                 constructing, ret, planVars>>

\* one iteration of the loop of initialize_patch_indices
InitializeVolume ==
  /\ pc = "init_indices"
  /\ i < NVolumes
  /\ LET g == PlanGeometry(unpadded_data_shape[i + 1], patch_shape, patch_overlap,
                           randomize_patch_offsets)
     IN  \E draw \in (IF randomize_patch_offsets THEN Draws(g.overflow)
                                                 ELSE {Repeat(0)}) :
           LET r == CalcPatchIndices(unpadded_data_shape[i + 1], patch_shape,
                                     patch_overlap, randomize_patch_offsets, draw)
           IN  IF r.status = "ok"
               THEN /\ patch_indices' = patch_indices \o TagPatches(i, r.placements)
                    /\ padding_boundary' =
                         [padding_boundary EXCEPT
                            ![i + 1] = SetPaddingBoundary(@, PadWidth(r.overflow))]
                    /\ i' = i + 1
                    /\ pc' = AfterVolume(i + 1, constructing)
               ELSE /\ pc' = "failed"
                    /\ UNCHANGED <<patch_indices, padding_boundary, i>>
  /\ UNCHANGED <<cfgVars, volVars, constructing, ret, planVars>>

\* __init__ after initialize_patch_indices: the padding of every volume
ApplyPadding ==
  /\ pc = "padding"
  /\ data' = [v \in 1..NVolumes |->
                Pad(data[v], padding_boundary[v], Num(pad_constant))]
  /\ labels' = [v \in 1..NVolumes |->
                  AsInt64Array(Pad(labels[v], padding_boundary[v], Num(pad_constant)))]
  /\ constructing' = FALSE
  /\ pc' = "idle"
  /\ UNCHANGED <<cfgVars, unpadded_data_shape, padding_boundary, patch_indices, i,
                 ret, planVars>>

\* initialize_patch_indices() called on the constructed dataset
InitializePatchIndices ==
  /\ pc = "idle"
  /\ patch_indices' = <<>>
  /\ i' = 0
  /\ pc' = AfterVolume(0, FALSE)
  /\ UNCHANGED <<cfgVars, volVars, padding_boundary, constructing, ret, planVars>>

\* dataset[index]
CallGetItem ==
  /\ pc = "idle"
  /\ \E index \in 0..Len(patch_indices) : \E int16 \in Int16Conversions :
       ret' = getitem(index, int16)
  /\ pc' = "returned"
  /\ UNCHANGED <<cfgVars, volVars, padding_boundary, patch_indices, i,
                 constructing, planVars>>

\* dataset.get_original(dataset_index)
CallGetOriginal ==
  /\ pc = "idle"
  /\ \E dataset_index \in 0..(NVolumes - 1) : ret' = get_original(dataset_index)
  /\ pc' = "returned"
  /\ UNCHANGED <<cfgVars, volVars, padding_boundary, patch_indices, i,
                 constructing, planVars>>

\* len(dataset)
CallLen ==
  /\ pc = "idle"
  /\ ret' = [op |-> "len", value |-> Len(patch_indices)]
  /\ pc' = "returned"
  /\ UNCHANGED <<cfgVars, volVars, padding_boundary, patch_indices, i,
                 constructing, planVars>>

\* the caller takes the returned value
Return ==
  /\ pc = "returned"
  /\ ret' = NoRet
  /\ pc' = "idle"
  /\ UNCHANGED <<cfgVars, volVars, padding_boundary, patch_indices, i,
                 constructing, planVars>>

Next ==
  \/ Load
  \/ LoadFails
  \/ InitializeVolume
  \/ ApplyPadding
  \/ InitializePatchIndices
  \/ CallGetItem
  \/ CallGetOriginal
  \/ CallLen
  \/ Return

Spec == Init /\ [][Next]_vars

(***************************************************************************)
(* The dataset on a long volume: one axis is longer than the int16 range   *)
(* of the patch coordinates of __getitem__, the patch is long on that      *)
(* axis, the offsets are not randomized.                                   *)
(***************************************************************************)
WideAxis == 2^16 + 2

WidePatch == 2^10

WideFiles ==
  [shapes : {<<(<<WideAxis, 2, 2>>)>>, <<(<<WideAxis, 1, 2>>)>>},
   base   : {1}]

InitWide ==
  /\ pc = "new"
  /\ h5 \in WideFiles
  /\ patch_shape = <<WidePatch, 2, 2>>
  /\ patch_overlap = <<0>>
  /\ randomize_patch_offsets = FALSE
  /\ pad_constant \in {0, 1}
  /\ data = <<>> /\ labels = <<>> /\ unpadded_data_shape = <<>>
  /\ padding_boundary = <<>> /\ patch_indices = <<>>
  /\ i = 0 /\ constructing = FALSE /\ ret = NoRet
  /\ plan_args = None /\ plan_ret = NoRet

SpecWide == InitWide /\ [][Next]_vars

(***************************************************************************)
(* Properties                                                              *)
(***************************************************************************)
Ready == pc \in {"idle", "returned"}

Called == pc = "called"

\* the overflow of the planning of volume v (it does not depend on the draw)
OverflowOf(v) ==
  PlanGeometry(unpadded_data_shape[v], patch_shape, patch_overlap,
               randomize_patch_offsets).overflow

\* the number of patches the geometry of volume v gives
PatchCountOf(v) ==
  LET n == PlanGeometry(unpadded_data_shape[v], patch_shape, patch_overlap,
                        randomize_patch_offsets).n_patches
  IN  IF \A a \in Axes : n[a] >= 1 THEN n[1] * n[2] * n[3] ELSE 0

RECURSIVE PatchCountUpTo(_)
PatchCountUpTo(v) == IF v = 0 THEN 0 ELSE PatchCountUpTo(v - 1) + PatchCountOf(v)

\* the start of the patch index entry a getitem call was made for
EntryStart == [a \in Axes |-> patch_indices[ret.index + 1][a + 1]]

\* the volume of the patch a getitem call returned
RetVolume == ret.dataset_index + 1

RetOk == ret.op = "getitem" /\ ret.status = "ok"

\* patch-local coordinate x of the returned patch lies in its valid region
InValid(x) ==
  \A a \in Axes : ret.patch_valid[1][a] <= x[a] /\ x[a] < ret.patch_valid[2][a]

\* the coordinate of the loaded volume under patch-local coordinate x
Under(x) == <<EntryStart[1] + x[1], EntryStart[2] + x[2], EntryStart[3] + x[3]>>

\* C1: after construction and after any rebuild, the padded slice of every
\* entry of the patch index lies inside the padded volume on every axis, the
\* padded shape is unpadded_shape + 2 * overflow, and a getitem call returns
\* signal and label patches of exactly patch_shape (its assertion holds).
C1_SliceInsidePadded ==
  Ready =>
    /\ \A v \in 1..NVolumes :
         /\ padding_boundary[v] = PadWidth(OverflowOf(v))
         /\ \A a \in Axes :
              /\ data[v].shape[a] = unpadded_data_shape[v][a] + 2 * OverflowOf(v)[a]
              /\ labels[v].shape[a] = data[v].shape[a]
    /\ \A j \in 1..Len(patch_indices) : \A a \in Axes :
         LET v   == patch_indices[j][1] + 1
             low == padding_boundary[v][a][1]
         IN  /\ 0 <= patch_indices[j][a + 1] + low
             /\ patch_indices[j][a + 1] + patch_shape[a] + low <= data[v].shape[a]
    /\ (ret.op = "getitem" /\ ret.index < Len(patch_indices)) =>
         /\ ret.status = "ok"
         /\ ret.image_patch.shape = patch_shape
         /\ ret.labels_patch.shape = patch_shape
         /\ DOMAIN ret.image_patch.at = Coords(patch_shape)
         /\ DOMAIN ret.labels_patch.at = Coords(patch_shape)

\* channel chan of volume v as the file holds it
Loaded(v, chan) ==
  [shape |-> h5.shapes[v],
   at    |-> [x \in Coords(h5.shapes[v]) |-> H5Voxel(h5, v, chan, x)]]

\* C2: get_original(v) returns the signal and the label volume as loaded:
\* the shape is unpadded_shape and every voxel is the loaded voxel.
C2_RoundTrip ==
  ret.op = "get_original" =>
    /\ ret.signal = Loaded(ret.dataset_index + 1, 0)
    /\ ret.label = Loaded(ret.dataset_index + 1, 1)
    /\ ret.signal.shape = unpadded_data_shape[ret.dataset_index + 1]

\* C2 witness: get_original returned the second volume of a file, which was
\* padded on every axis.
C2_Witness ==
  /\ ret.op = "get_original"
  /\ ret.dataset_index = 1
  /\ \A a \in Axes : padding_boundary[2][a][1] > 0

\* C3: a padding record that is set never changes, and once the dataset is
\* constructed no step (rebuild, getitem, get_original, len) changes the
\* padded volumes, the unpadded shapes or the padding records.
C3_PaddingFrame ==
  [][ /\ \A v \in DOMAIN padding_boundary :
           padding_boundary[v] # None =>
             /\ v \in DOMAIN padding_boundary'
             /\ padding_boundary'[v] = padding_boundary[v]
      /\ (Ready \/ (pc = "init_indices" /\ ~constructing)) =>
           UNCHANGED <<data, labels, unpadded_data_shape, padding_boundary>>
    ]_vars

\* C3 witness: a rebuild with random offsets has replanned the first volume
\* of a two-volume dataset with a nonzero offset.
C3_Witness ==
  /\ pc = "init_indices"
  /\ ~constructing
  /\ i = 1
  /\ randomize_patch_offsets
  /\ Len(patch_indices) > 0
  /\ patch_indices[1][2] < 0

\* the per-axis starts of the placements the planner returned
AxisStarts(a) ==
  {plan_ret.placements[j][a] : j \in 1..Len(plan_ret.placements)}

\* C4: in non-random mode with overlap 0 the placements cover the volume on
\* every axis without gaps, and consecutive starts differ by patch_shape.
C4_Coverage ==
  (Called /\ ~plan_args.randomize_offset /\ plan_args.overlap = Repeat(0)) =>
    \A a \in Axes :
      /\ \A c \in 0..(plan_args.image_shape[a] - 1) :
           \E s \in AxisStarts(a) : s <= c /\ c < s + plan_args.patch_shape[a]
      /\ \A s \in AxisStarts(a) :
           \/ s + plan_args.patch_shape[a] \in AxisStarts(a)
           \/ \A t \in AxisStarts(a) : t <= s
      /\ \A s, t \in AxisStarts(a) :
           s < t => t - s >= plan_args.patch_shape[a]

\* C4 witness: a non-random plan with overlap 0, several patches on an axis
\* and a first patch that starts before the volume.
C4_Witness ==
  /\ Called /\ ~plan_args.randomize_offset /\ plan_args.overlap = Repeat(0)
  /\ \E a \in Axes : Cardinality(AxisStarts(a)) >= 2 /\ \E s \in AxisStarts(a) : s < 0

\* the volume is a positive multiple of the patch on every axis, overlap 0
EvenlyDivisible ==
  /\ plan_args.overlap = Repeat(0)
  /\ \A a \in Axes : plan_args.image_shape[a] % plan_args.patch_shape[a] = 0

C7_AtLeastOnePatch ==
  Called =>
    /\ \A a \in Axes : plan_ret.n_patches[a] >= 1
    /\ Len(plan_ret.placements)
         = plan_ret.n_patches[1] * plan_ret.n_patches[2] * plan_ret.n_patches[3]

\* C8: in non-random mode the last patch on each axis oversteps the far edge
\* of the volume by at least overlap/2.
C8_LastPatchOverstep ==
  (Called /\ ~plan_args.randomize_offset) =>
    \A a \in Axes : \A s \in AxisStarts(a) :
      (\A t \in AxisStarts(a) : t <= s) =>
        2 * ((s + plan_args.patch_shape[a]) - plan_args.image_shape[a])
          >= plan_args.overlap[a]

\* the starts of the patches on axis a, from the locals of the call
PlannedStarts(a) ==
  {plan_ret.start_index[a] + k * plan_ret.step_size[a] :
     k \in 0..(plan_ret.n_patches[a] - 1)}

\* the valid region on axis a of a patch that starts at s on that axis
ValidOnAxis(s, a) ==
  LET pv == PatchValid(Repeat(s), [b \in Axes |-> s + plan_args.patch_shape[b]],
                       plan_args.image_shape)
  IN  <<pv[1][a], pv[2][a]>>

\* C9 as stated: every placement the planner produces has, on every axis, a
\* valid region with 0 <= valid_low < valid_high <= patch_shape.
C9_EveryPatchHasRealVoxel ==
  Called =>
    \A j \in 1..Len(plan_ret.placements) : \A a \in Axes :
      LET vr == ValidOnAxis(plan_ret.placements[j][a], a)
      IN  0 <= vr[1] /\ vr[1] < vr[2] /\ vr[2] <= plan_args.patch_shape[a]

\* C9 amended: in non-random mode every placement has 0 <= valid_low <
\* valid_high <= patch_shape on every axis.  In random mode valid_low <=
\* valid_high, and the patches of an axis all contain a real coordinate
\* exactly when the drawn offset r = -start_index satisfies
\* overflow - patch_shape < r < patch_shape on that axis.
C9_RealVoxelUnlessDrawnOut ==
  Called =>
    \A a \in Axes :
      /\ \A j \in 1..Len(plan_ret.placements) :
           /\ plan_ret.placements[j][a] \in PlannedStarts(a)
           /\ ValidOnAxis(plan_ret.placements[j][a], a)[1]
                <= ValidOnAxis(plan_ret.placements[j][a], a)[2]
      /\ ~plan_args.randomize_offset =>
           \A s \in PlannedStarts(a) :
             /\ 0 <= ValidOnAxis(s, a)[1]
             /\ ValidOnAxis(s, a)[1] < ValidOnAxis(s, a)[2]
             /\ ValidOnAxis(s, a)[2] <= plan_args.patch_shape[a]
      /\ (\A s \in PlannedStarts(a) : ValidOnAxis(s, a)[1] < ValidOnAxis(s, a)[2])
           <=> /\ plan_ret.overflow[a] - plan_args.patch_shape[a] < -plan_ret.start_index[a]
               /\ -plan_ret.start_index[a] < plan_args.patch_shape[a]

\* C9 witness: a random plan whose offset on an axis is a whole patch, so
\* that the first placement lies in the padding on that axis.
C9_Witness ==
  /\ Called /\ plan_args.randomize_offset
  /\ Len(plan_ret.placements) > 0
  /\ \E a \in Axes :
       /\ -plan_ret.start_index[a] >= plan_args.patch_shape[a]
       /\ ValidOnAxis(plan_ret.placements[1][a], a)[1]
            = ValidOnAxis(plan_ret.placements[1][a], a)[2]

\* C6: for the patch index entry with start `start` in volume v, the
\* valid_region getitem returns is clip(start, start + patch_shape; 0,
\* unpadded_shape) - start, a patch-local coordinate is inside it exactly
\* when it is a real voxel coordinate, and the patch voxel there equals the
\* loaded voxel at start + x.
C6_ValidRegionLoadedVoxel ==
  RetOk =>
    LET U == unpadded_data_shape[RetVolume]
    IN  /\ \A a \in Axes :
             /\ ret.patch_valid[1][a] = Clip(EntryStart[a], 0, U[a]) - EntryStart[a]
             /\ ret.patch_valid[2][a]
                  = Clip(EntryStart[a] + patch_shape[a], 0, U[a]) - EntryStart[a]
             /\ \A k \in 0..(patch_shape[a] - 1) :
                  (ret.patch_valid[1][a] <= k /\ k < ret.patch_valid[2][a])
                    <=> (0 <= EntryStart[a] + k /\ EntryStart[a] + k < U[a])
        /\ \A x \in Coords(patch_shape) :
             InValid(x) =>
               /\ ret.image_patch.at[x] = H5Voxel(h5, RetVolume, 0, Under(x))
               /\ ret.labels_patch.at[x] = H5Voxel(h5, RetVolume, 1, Under(x))

\* C10: whenever the dataset is constructed, its length is the sum over the
\* volumes of the patch count the geometry gives (it does not depend on the
\* draws, so every rebuild gives the same length), volume v's entries are
\* exactly those at the positions after the entries of the volumes before
\* it, the padding record of a volume is the overflow its geometry gives,
\* and len() returns that length.
C10_LengthStable ==
  Ready =>
    /\ Len(patch_indices) = PatchCountUpTo(NVolumes)
    /\ \A v \in 1..NVolumes : padding_boundary[v] = PadWidth(OverflowOf(v))
    /\ \A v \in 1..NVolumes :
         LET before == PatchCountUpTo(v - 1)
             upto   == PatchCountUpTo(v)
         IN  \A j \in (before + 1)..upto :
               j <= Len(patch_indices) /\ patch_indices[j][1] = v - 1
    /\ ret.op = "len" => ret.value = PatchCountUpTo(NVolumes)

\* C10 witness: len() returned on a two-volume dataset with random offsets
\* whose first volume was planned with a nonzero offset.
C10_Witness ==
  /\ pc = "returned"
  /\ ret.op = "len"
  /\ NVolumes = 2
  /\ randomize_patch_offsets
  /\ patch_indices[1][2] < 0

=============================================================================
